---- MODULE Spec2Model ----
(***************************************************************************)
(* Model of imp: the import-block parser (parser.rs), the Import data      *)
(* model and its ordering (import.rs), the two transformation passes       *)
(* (transformers.rs) and the pipeline of main (main.rs).                   *)
(*                                                                         *)
(* Buffers are sequences of bytes (ASCII codes).  A cursor is a 0-based    *)
(* offset as in the source: the byte at offset k is src[k + 1].            *)
(* Option<T> is a sequence of length 0 (None) or 1 (Some).                 *)
(***************************************************************************)
EXTENDS Integers, Sequences, FiniteSets, TLC

VARIABLES src, ps, ret, entry, imports, prev, pc, out, run

vars == <<src, ps, ret, entry, imports, prev, pc, out, run>>

---------------------------------------------------------------------------
(* Bytes and literals                                                      *)

NL == 10
SP == 32
HASH == 35
UNDERSCORE == 95

lit_import == <<105, 109, 112, 111, 114, 116>>                 \* "import"
lit_from == <<102, 114, 111, 109>>                             \* "from"
lit_as == <<97, 115>>                                          \* "as"
lit_dot == <<46>>                                              \* "."
lit_comma == <<44>>                                            \* ","
lit_lparen == <<40>>                                           \* "("
lit_rparen == <<41>>                                           \* ")"
lit_star == <<42>>                                             \* "*"
lit_future == <<95, 95, 102, 117, 116, 117, 114, 101, 95, 95>> \* "__future__"
lit_annotations == <<97, 110, 110, 111, 116, 97, 116, 105, 111, 110, 115>> \* "annotations"

\* "from __future__ import annotations"
required_src == lit_from \o <<SP>> \o lit_future \o <<SP>> \o lit_import \o <<SP>> \o lit_annotations

None == <<>>
Some(v) == <<v>>

Min(S) == CHOOSE m \in S : \A n \in S : m <= n

is_ascii_alphanumeric(c) == c \in 48..57 \/ c \in 65..90 \/ c \in 97..122

---------------------------------------------------------------------------
(* parser.rs: Ps, Token and the tokenizer                                  *)

Ps_new == [i |-> 0, rest |-> 0]

Token(slice, i) == [slice |-> slice, i |-> i]

\* src[a..b] of the source (0-based, b exclusive)
Slice(b, from, to) == SubSeq(b, from + 1, to)

\* a backtrack that never restores the cursor
backtrack_keep(s, r) == r

\* Runs the rule's result r through the snapshot taken at entry s.
backtrack(s, r) ==
  IF r.val = None THEN [r EXCEPT !.s.i = s.i] ELSE r

string(b, s, str) ==
  IF \A k \in 1..Len(str) : Len(b) > s.i + (k - 1) /\ b[s.i + k] = str[k]
    THEN [ok |-> TRUE, s |-> [s EXCEPT !.i = s.i + Len(str)]]
    ELSE [ok |-> FALSE, s |-> s]

identifier(b, s) ==
  LET stop == Min({j \in s.i..Len(b) :
                     \/ Len(b) <= j
                     \/ ~(b[j + 1] = UNDERSCORE \/ is_ascii_alphanumeric(b[j + 1]))})
      i == stop - s.i
  IN IF i = 0
       THEN [val |-> None, s |-> s]
       ELSE [val |-> Some(Token(Slice(b, s.i, stop), s.i)), s |-> [s EXCEPT !.i = stop]]

comment(b, s) ==
  IF ~(Len(b) > s.i /\ b[s.i + 1] = HASH)
    THEN [val |-> None, s |-> s]
    ELSE LET start == s.i
             eol == Min({j \in s.i..Len(b) : ~(Len(b) > j /\ b[j + 1] # NL)})
             end == IF Len(b) > eol THEN eol + 1 ELSE eol
         IN [val |-> Some(Token(Slice(b, start, end - 1), start)),
             s |-> [s EXCEPT !.i = end]]

whitespace(b, s) ==
  LET stop == Min({j \in s.i..Len(b) :
                     ~(Len(b) > j /\ (b[j + 1] = SP \/ b[j + 1] = NL))})
  IN [s EXCEPT !.i = stop]

---------------------------------------------------------------------------
(* import.rs: the data model and its ordering                              *)

Less == "Less"
Equal == "Equal"
Greater == "Greater"

reverse(o) == IF o = Less THEN Greater ELSE IF o = Greater THEN Less ELSE Equal

\* Ordering::then
then(o, p) == IF o = Equal THEN p ELSE o

usize_cmp(a, b) == IF a < b THEN Less ELSE IF a > b THEN Greater ELSE Equal

\* The standard library compares slices, Vecs and BTreeSets
\* lexicographically: by the first position whose elements differ, else by
\* length.
common(a, b) == 1..(IF Len(a) < Len(b) THEN Len(a) ELSE Len(b))

\* <[u8]>::cmp
bytes_cmp(a, b) ==
  LET D == {k \in common(a, b) : a[k] # b[k]}
  IN IF D = {} THEN usize_cmp(Len(a), Len(b)) ELSE usize_cmp(a[Min(D)], b[Min(D)])

Token_cmp(a, b) == bytes_cmp(a.slice, b.slice)

Token_eq(a, b) == a.slice = b.slice

\* Option<Token>: None sorts before Some
OptionToken_cmp(a, b) ==
  IF a = None THEN (IF b = None THEN Equal ELSE Less)
  ELSE IF b = None THEN Greater ELSE Token_cmp(a[1], b[1])

ModulePath_cmp(a, b) ==
  LET D == {k \in common(a, b) : Token_cmp(a[k], b[k]) # Equal}
  IN IF D = {} THEN usize_cmp(Len(a), Len(b)) ELSE Token_cmp(a[Min(D)], b[Min(D)])

ModulePath_eq(a, b) ==
  Len(a) = Len(b) /\ \A k \in 1..Len(a) : Token_eq(a[k], b[k])

Module(path, alias) == [path |-> path, alias |-> alias]

Module_cmp(a, b) == then(ModulePath_cmp(a.path, b.path), OptionToken_cmp(a.alias, b.alias))

\* A BTreeSet is kept as its sorted iteration sequence.  BTreeSet::insert
\* does not insert an element equal to an existing one.
ModuleList_insert(set, e) ==
  IF \E k \in 1..Len(set) : Module_cmp(set[k], e) = Equal
    THEN set
    ELSE LET n == Cardinality({k \in 1..Len(set) : Module_cmp(set[k], e) = Less})
         IN SubSeq(set, 1, n) \o <<e>> \o SubSeq(set, n + 1, Len(set))

IdentifierList_insert(set, e) ==
  IF \E k \in 1..Len(set) : Token_cmp(set[k], e) = Equal
    THEN set
    ELSE LET n == Cardinality({k \in 1..Len(set) : Token_cmp(set[k], e) = Less})
         IN SubSeq(set, 1, n) \o <<e>> \o SubSeq(set, n + 1, Len(set))

ModuleList_cmp(a, b) ==
  LET D == {k \in common(a, b) : Module_cmp(a[k], b[k]) # Equal}
  IN IF D = {} THEN usize_cmp(Len(a), Len(b)) ELSE Module_cmp(a[Min(D)], b[Min(D)])

Named(level, path) == [kind |-> "Named", level |-> level, path |-> path]
Unnamed(level) == [kind |-> "Unnamed", level |-> level]

is_future(m) ==
  /\ m.kind = "Named"
  /\ m.level = 0
  /\ Len(m.path) > 0
  /\ m.path[1].slice = lit_future

RelativeModule_cmp(a, b) ==
  IF a.kind = "Named"
    THEN IF b.kind = "Named"
           THEN then(usize_cmp(a.level, b.level), ModulePath_cmp(a.path, b.path))
           ELSE Less
    ELSE IF b.kind = "Named"
           THEN Greater
           ELSE reverse(usize_cmp(a.level, b.level))

RelativeModule_eq(a, b) ==
  IF a.kind = "Named" /\ b.kind = "Named"
    THEN a.level = b.level /\ ModulePath_eq(a.path, b.path)
    ELSE IF a.kind = "Unnamed" /\ b.kind = "Unnamed"
           THEN a.level = b.level
           ELSE FALSE

Absolute(modules, cmt) == [kind |-> "Absolute", modules |-> modules, comment |-> cmt]
Relative(from, identifiers, cmt) ==
  [kind |-> "Relative", from |-> from, identifiers |-> identifiers, comment |-> cmt]
Wildcard(from, cmt) == [kind |-> "Wildcard", from |-> from, comment |-> cmt]

Import_cmp(a, b) ==
  CASE a.kind = "Absolute" ->
         (CASE b.kind = "Absolute" -> ModuleList_cmp(a.modules, b.modules)
            [] b.kind = "Relative" -> Less
            [] b.kind = "Wildcard" -> Less)
    [] a.kind = "Relative" /\ is_future(a.from) -> Less
    [] a.kind = "Relative" /\ ~is_future(a.from) ->
         (CASE b.kind = "Absolute" -> Greater
            [] b.kind = "Relative" -> RelativeModule_cmp(a.from, b.from)
            [] b.kind = "Wildcard" -> Less)
    [] a.kind = "Wildcard" ->
         (CASE b.kind = "Absolute" -> Greater
            [] b.kind = "Relative" -> Greater
            [] b.kind = "Wildcard" -> RelativeModule_cmp(a.from, b.from))

---------------------------------------------------------------------------
(* import.rs: rendering (Display)                                          *)

RECURSIVE join(_, _)
\* the slices of the tokens of seq, separated by sep
join(seq, sep) ==
  IF seq = <<>> THEN <<>>
  ELSE IF Len(seq) = 1 THEN seq[1]
  ELSE seq[1] \o sep \o join(Tail(seq), sep)

slices(tokens) == [k \in 1..Len(tokens) |-> tokens[k].slice]

Module_fmt(m) ==
  join(slices(m.path), lit_dot)
    \o (IF m.alias # None THEN <<SP>> \o lit_as \o <<SP>> \o m.alias[1].slice ELSE <<>>)

RelativeModule_fmt(m) ==
  [k \in 1..m.level |-> 46]
    \o (IF m.kind = "Named" THEN join(slices(m.path), lit_dot) ELSE <<>>)

comment_fmt(cmt) == IF cmt # None THEN <<SP, SP>> \o cmt[1].slice ELSE <<>>

Import_fmt(imp) ==
  CASE imp.kind = "Absolute" ->
         lit_import \o <<SP>>
           \o join([k \in 1..Len(imp.modules) |-> Module_fmt(imp.modules[k])], <<44, SP>>)
           \o comment_fmt(imp.comment)
    [] imp.kind = "Relative" ->
         lit_from \o <<SP>> \o RelativeModule_fmt(imp.from) \o <<SP>> \o lit_import \o <<SP>>
           \o join(slices(imp.identifiers), <<44, SP>>)
           \o comment_fmt(imp.comment)
    [] imp.kind = "Wildcard" ->
         lit_from \o <<SP>> \o RelativeModule_fmt(imp.from) \o <<SP>> \o lit_import \o <<SP>>
           \o lit_star
           \o comment_fmt(imp.comment)

---------------------------------------------------------------------------
(* parser.rs: the grammar rules.  Each rule maps the buffer and the parser *)
(* state at entry to [val |-> Option, s |-> parser state at return].       *)

no_match(s) == [val |-> None, s |-> s]
match(v, s) == [val |-> Some(v), s |-> s]

RECURSIVE module_path_loop(_, _, _)

\* after the identifier and the whitespace: the dot decides whether to go on
module_path_dot(b, path, dot) ==
  IF ~dot.ok
    THEN [path |-> path, s |-> dot.s]
    ELSE module_path_loop(b, whitespace(b, dot.s), path)

\* while let Some(identifier) = self.identifier(s)
module_path_identifier(b, path, id) ==
  IF id.val = None
    THEN [path |-> path, s |-> id.s]
    ELSE module_path_dot(b, Append(path, id.val[1]), string(b, whitespace(b, id.s), lit_dot))

module_path_loop(b, s, path) == module_path_identifier(b, path, identifier(b, s))

module_path_end(r) ==
  IF r.path = <<>> THEN no_match(r.s) ELSE match(r.path, r.s)

module_path(b, s) == backtrack(s, module_path_end(module_path_loop(b, s, <<>>)))

\* Some(Module { path, alias: Some(self.identifier(s)?) })
module_alias(path, alias) ==
  IF alias.val = None THEN no_match(alias.s) ELSE match(Module(path, alias.val), alias.s)

\* if self.string(s, "as")
module_as(b, path, as) ==
  IF as.ok
    THEN module_alias(path, identifier(b, whitespace(b, as.s)))
    ELSE match(Module(path, None), as.s)

\* let path = self.module_path(s)?;
module_body(b, path) ==
  IF path.val = None
    THEN no_match(path.s)
    ELSE module_as(b, path.val[1], string(b, whitespace(b, path.s), lit_as))

module(b, s) == backtrack(s, module_body(b, module_path(b, s)))

RECURSIVE module_list_loop(_, _, _)

\* if !self.string(s, ",") { break; }
module_list_comma(b, modules, c) ==
  IF ~c.ok
    THEN match(modules, c.s)
    ELSE module_list_loop(b, whitespace(b, c.s), modules)

\* let module = self.module(s)?;
module_list_module(b, modules, m) ==
  IF m.val = None
    THEN no_match(m.s)
    ELSE module_list_comma(b, ModuleList_insert(modules, m.val[1]),
                           string(b, whitespace(b, m.s), lit_comma))

module_list_loop(b, s, modules) == module_list_module(b, modules, module(b, s))

\* if self.string(s, ")") { self.whitespace(s); }
close_paren(b, p) == IF p.ok THEN whitespace(b, p.s) ELSE p.s

\* the part of module_list and identifier_list after the loop
list_close(b, r) ==
  IF r.val = None
    THEN r
    ELSE IF r.val[1] # <<>>
           THEN [val |-> r.val, s |-> close_paren(b, string(b, r.s, lit_rparen))]
           ELSE no_match(close_paren(b, string(b, r.s, lit_rparen)))

module_list(b, s) ==
  backtrack(s, list_close(b, module_list_loop(b, string(b, s, lit_lparen).s, <<>>)))

RECURSIVE identifier_list_loop(_, _, _)

identifier_list_comma(b, identifiers, c) ==
  IF ~c.ok
    THEN match(identifiers, c.s)
    ELSE identifier_list_loop(b, whitespace(b, c.s), identifiers)

\* let identifier = self.identifier(s)?;
identifier_list_identifier(b, identifiers, id) ==
  IF id.val = None
    THEN no_match(id.s)
    ELSE identifier_list_comma(b, IdentifierList_insert(identifiers, id.val[1]),
                               string(b, whitespace(b, id.s), lit_comma))

identifier_list_loop(b, s, identifiers) ==
  identifier_list_identifier(b, identifiers, identifier(b, s))

identifier_list(b, s) ==
  backtrack(s, list_close(b, identifier_list_loop(b, string(b, s, lit_lparen).s, <<>>)))

RECURSIVE level_loop(_, _, _)

level_dot(b, level, d) ==
  IF d.ok THEN level_loop(b, d.s, level + 1) ELSE [level |-> level, s |-> d.s]

\* while self.string(s, ".") { level += 1 }
level_loop(b, s, level) == level_dot(b, level, string(b, s, lit_dot))

\* if let Some(path) = self.module_path(s) ... else if level == 0 ... else
relative_module_path(level, path) ==
  IF path.val # None
    THEN match(Named(level, path.val[1]), path.s)
    ELSE IF level = 0
           THEN no_match(path.s)
           ELSE match(Unnamed(level), path.s)

relative_module_level(b, l) == relative_module_path(l.level, module_path(b, l.s))

relative_module(b, s) == backtrack(s, relative_module_level(b, level_loop(b, s, 0)))

\* the optional comment and the whitespace after it
import_comment(b, cmt) == [comment |-> cmt.val, s |-> whitespace(b, cmt.s)]

\* whitespace, optional comment, whitespace: the end of every statement form
import_tail(b, s) == import_comment(b, comment(b, whitespace(b, s)))

import_absolute(modules, t) == match(Absolute(modules, t.comment), t.s)

import_relative(from, identifiers, t) == match(Relative(from, identifiers, t.comment), t.s)

import_wildcard(from, t) == match(Wildcard(from, t.comment), t.s)

\* let modules = self.module_list(s)?;
import_modules(b, modules) ==
  IF modules.val = None
    THEN no_match(modules.s)
    ELSE import_absolute(modules.val[1], import_tail(b, modules.s))

\* let identifiers = self.identifier_list(s)?;
import_identifiers(b, from, ids) ==
  IF ids.val = None
    THEN no_match(ids.s)
    ELSE import_relative(from, ids.val[1], import_tail(b, ids.s))

\* if self.string(s, "*")
import_star(b, from, star) ==
  IF star.ok
    THEN import_wildcard(from, import_tail(b, star.s))
    ELSE import_identifiers(b, from, identifier_list(b, star.s))

\* if !self.string(s, "import") { return None; }
import_keyword(b, from, im) ==
  IF ~im.ok
    THEN no_match(im.s)
    ELSE import_star(b, from, string(b, whitespace(b, im.s), lit_star))

\* let from = self.relative_module(s)?;
import_from(b, from) ==
  IF from.val = None
    THEN no_match(from.s)
    ELSE import_keyword(b, from.val[1], string(b, whitespace(b, from.s), lit_import))

\* else if self.string(s, "from")
import_else(b, fr) ==
  IF fr.ok
    THEN import_from(b, relative_module(b, whitespace(b, fr.s)))
    ELSE no_match(fr.s)

\* if self.string(s, "import")
import_if(b, kw) ==
  IF kw.ok
    THEN import_modules(b, module_list(b, whitespace(b, kw.s)))
    ELSE import_else(b, string(b, kw.s, lit_from))

import(b, s) == backtrack(s, import_if(b, string(b, s, lit_import)))

\* a loop body that forgets to record the block end
start_body_no_rest(b, s) == whitespace(b, s)

\* s.rest = s.i; self.whitespace(s);
start_body(b, s) == whitespace(b, [s EXCEPT !.rest = s.i])

RECURSIVE start_loop(_, _, _)

\* while let Some(import) = self.import(s)
start_import(b, imps, r) ==
  IF r.val = None
    THEN match(imps, r.s)
    ELSE start_loop(b, start_body(b, r.s), Append(imps, r.val[1]))

start_loop(b, s, imps) == start_import(b, imps, import(b, s))

start(b, s) == start_loop(b, whitespace(b, s), <<>>)

rest(b, s) == Slice(b, s.rest, Len(b))

---------------------------------------------------------------------------
(* transformers.rs: the two passes.  Indices are 1-based here, both in the *)
(* grouping map and in the retain counter.                                 *)

range(f) == {f[k] : k \in DOMAIN f}

\* Vec::retain with a predicate on the running index: drops the entries
\* whose index is in the set drop
retain_index(v, drop) ==
  LET keep == {j \in 1..Len(v) : j \notin drop}
  IN [n \in 1..Cardinality(keep) |->
        v[CHOOSE j \in keep : Cardinality({m \in keep : m <= j}) = n]]

RECURSIVE group_loop(_, _, _)
\* first loop: unique_relative_imports as the sequence of its entries
\* [key, v] in key order
group_loop(imps, i, map) ==
  IF i > Len(imps)
    THEN map
    ELSE IF imps[i].kind = "Relative"
      THEN LET hits == {k \in 1..Len(map) :
                          RelativeModule_eq(imps[map[k].key].from, imps[i].from)}
           IN IF hits # {}
                THEN group_loop(imps, i + 1, [map EXCEPT ![Min(hits)].v = Append(@, i)])
                ELSE group_loop(imps, i + 1, Append(map, [key |-> i, v |-> <<>>]))
      ELSE group_loop(imps, i + 1, map)

RECURSIVE flat_identifiers(_, _)
\* to_combine: the identifiers of the entries listed in v, in order
flat_identifiers(imps, v) ==
  IF v = <<>> THEN <<>> ELSE imps[v[1]].identifiers \o flat_identifiers(imps, Tail(v))

RECURSIVE insert_all(_, _)
insert_all(set, tokens) ==
  IF tokens = <<>>
    THEN set
    ELSE insert_all(IdentifierList_insert(set, tokens[1]), Tail(tokens))

RECURSIVE union_loop(_, _, _)
\* second loop: each key entry receives the identifiers of its group
union_loop(imps, map, k) ==
  IF k > Len(map)
    THEN imps
    ELSE union_loop([imps EXCEPT ![map[k].key].identifiers =
                       insert_all(@, flat_identifiers(imps, map[k].v))],
                    map, k + 1)

RECURSIVE retain_loop(_, _, _)
\* third loop: one retain per map entry, each on the list as the previous
\* retain left it
retain_loop(imps, map, k) ==
  IF k > Len(map)
    THEN imps
    ELSE retain_loop(retain_index(imps, range(map[k].v)), map, k + 1)

combine_relative_imports(imps) ==
  LET unique_relative_imports == group_loop(imps, 1, <<>>)
  IN retain_loop(union_loop(imps, unique_relative_imports, 1), unique_relative_imports, 1)

\* a retain that keeps the last module instead of the first
retain_last(imp) ==
  IF imp.kind = "Absolute" /\ imp.modules # <<>>
    THEN [imp EXCEPT !.modules = <<imp.modules[Len(imp.modules)]>>]
    ELSE imp

\* what modules.retain leaves of an Absolute entry
retain_first(imp) ==
  IF imp.kind = "Absolute" /\ imp.modules # <<>>
    THEN [imp EXCEPT !.modules = <<imp.modules[1]>>]
    ELSE imp

RECURSIVE to_separate(_)
\* the modules the retain closures push, in list order then set order
to_separate(imps) ==
  IF imps = <<>>
    THEN <<>>
    ELSE (IF imps[1].kind = "Absolute" /\ imps[1].modules # <<>>
            THEN Tail(imps[1].modules)
            ELSE <<>>) \o to_separate(Tail(imps))

separate_absolute_imports(imps) ==
  LET pushed == to_separate(imps)
  IN [k \in 1..Len(imps) |-> retain_first(imps[k])]
       \o [k \in 1..Len(pushed) |-> Absolute(<<pushed[k]>>, None)]

---------------------------------------------------------------------------
(* main.rs: sort and output                                                *)

\* PartialOrd::lt through Ord::cmp
is_less(a, b) == Import_cmp(a, b) = Less

RECURSIVE insert_tail(_, _)
\* moves e left over the entries it is less than
insert_tail(sorted, e) ==
  IF sorted = <<>> \/ ~is_less(e, sorted[Len(sorted)])
    THEN Append(sorted, e)
    ELSE Append(insert_tail(SubSeq(sorted, 1, Len(sorted) - 1), e), sorted[Len(sorted)])

RECURSIVE sort_from(_, _)
sort_from(sorted, todo) ==
  IF todo = <<>> THEN sorted ELSE sort_from(insert_tail(sorted, todo[1]), Tail(todo))

\* imports.sort(): the stable sort of the standard library, an insertion
\* sort on the short lists handled here
sort(imps) == sort_from(<<>>, imps)

RECURSIVE println_all(_)
println_all(imps) ==
  IF imps = <<>> THEN <<>> ELSE Import_fmt(imps[1]) \o <<NL>> \o println_all(Tail(imps))

\* the text main writes
print(b, s, imps) == println_all(imps) \o <<NL, NL>> \o rest(b, s)

---------------------------------------------------------------------------
(* Inputs                                                                  *)

MaxChunks == 2
MaxRuleChunks == 2
MaxImports == 5
Runs == 2

c_import_a == lit_import \o <<SP, 97, NL>>                         \* "import a\n"
c_import_ba ==                                                     \* "import b as c, a, b  #k\n"
  lit_import \o <<SP, 98, SP>> \o lit_as
    \o <<SP, 99, 44, SP, 97, 44, SP, 98, SP, SP, HASH, 107, NL>>
c_import_trail == lit_import \o <<SP, 40, 97, 44, SP, 98, 44, 41, NL>>  \* "import (a, b,)\n"
c_import_eof == lit_import \o <<SP, 97, SP, HASH, 107>>            \* "import a #k"
c_import_alias == lit_import \o <<SP, 97, 46, 98, SP>> \o lit_as \o <<NL>>  \* "import a.b as\n"
c_from_a_x ==                                                      \* "from .a import x\n"
  lit_from \o <<SP, 46, 97, SP>> \o lit_import \o <<SP, 120, NL>>
c_from_a_yx ==                                                     \* "from .a import y, x  #k\n"
  lit_from \o <<SP, 46, 97, SP>> \o lit_import \o <<SP, 121, 44, SP, 120, SP, SP, HASH, 107, NL>>
c_from_dd_yx ==                                                    \* "from .. import (y, x\n"
  lit_from \o <<SP, 46, 46, SP>> \o lit_import \o <<SP, 40, 121, 44, SP, 120, NL>>
c_from_trail ==                                                    \* "from a import (x, y,)\n"
  lit_from \o <<SP, 97, SP>> \o lit_import \o <<SP, 40, 120, 44, SP, 121, 44, 41, NL>>
c_wild ==                                                          \* "from .a import *\n"
  lit_from \o <<SP, 46, 97, SP>> \o lit_import \o <<SP>> \o lit_star \o <<NL>>
c_future ==                                                        \* "from __future__ import y\n"
  lit_from \o <<SP>> \o lit_future \o <<SP>> \o lit_import \o <<SP, 121, NL>>
c_from_bad == lit_from \o <<SP, 46, SP, 120, NL>>                  \* "from . x\n"
c_code == <<120, SP, 61, SP, 49, NL>>                              \* "x = 1\n"

Chunks ==
  { c_import_a, c_import_ba, c_import_trail, c_import_eof, c_import_alias,
    c_from_a_x, c_from_a_yx, c_from_dd_yx, c_from_trail, c_wild, c_future,
    c_from_bad, c_code }

\* the chunks of the buffers the rules are called on
RuleChunks ==
  { c_import_trail, c_import_eof, c_import_alias, c_from_a_yx, c_from_dd_yx,
    c_from_trail, c_from_bad }

RECURSIVE concat(_)
concat(seqs) == IF seqs = <<>> THEN <<>> ELSE seqs[1] \o concat(Tail(seqs))

\* the buffers made of at most n chunks
Buffers(chunks, n) == {concat(cs) : cs \in UNION {[1..k -> chunks] : k \in 0..n}}

\* the statements the lists of the passes are parsed from
Stmts ==
  { c_import_ba, c_from_a_x, c_from_a_yx, c_from_dd_yx, c_wild, required_src }

ParsedStmts == {import(t, Ps_new).val[1] : t \in Stmts}

---------------------------------------------------------------------------
(* main.rs: the pipeline, run again on its own output                      *)

Init ==
  /\ src \in Buffers(Chunks, MaxChunks)
  /\ ps = Ps_new
  /\ imports = <<>>
  /\ pc = "start"
  /\ out = <<>>
  /\ run = 1
  /\ ret = None
  /\ entry = Ps_new
  /\ prev = <<>>

\* let mut imports = pd.start(&mut ps).unwrap();
MainStart ==
  /\ pc = "start"
  /\ LET r == start(src, ps)
     IN /\ ps' = r.s
        /\ imports' = r.val[1]
  /\ pc' = "required"
  /\ UNCHANGED <<src, ret, entry, prev, out, run>>

\* imports.extend(required_imports);
MainRequired ==
  /\ pc = "required"
  /\ imports' = imports \o start(required_src, Ps_new).val[1]
  /\ pc' = "combine"
  /\ UNCHANGED <<src, ps, ret, entry, prev, out, run>>

MainCombine ==
  /\ pc = "combine"
  /\ imports' = combine_relative_imports(imports)
  /\ prev' = imports
  /\ pc' = "separate"
  /\ UNCHANGED <<src, ps, ret, entry, out, run>>

MainSeparate ==
  /\ pc = "separate"
  /\ imports' = separate_absolute_imports(imports)
  /\ prev' = imports
  /\ pc' = "sort"
  /\ UNCHANGED <<src, ps, ret, entry, out, run>>

MainSort ==
  /\ pc = "sort"
  /\ imports' = sort(imports)
  /\ prev' = imports
  /\ pc' = "print"
  /\ UNCHANGED <<src, ps, ret, entry, out, run>>

MainPrint ==
  /\ pc = "print"
  /\ out' = print(src, ps, imports)
  /\ pc' = "done"
  /\ UNCHANGED <<src, ps, ret, entry, imports, prev, run>>

\* the program is run on the text it has written
Rerun ==
  /\ pc = "done"
  /\ run < Runs
  /\ src' = out
  /\ ps' = Ps_new
  /\ imports' = <<>>
  /\ prev' = <<>>
  /\ out' = <<>>
  /\ pc' = "start"
  /\ run' = run + 1
  /\ UNCHANGED <<ret, entry>>

Next ==
  \/ MainStart
  \/ MainRequired
  \/ MainCombine
  \/ MainSeparate
  \/ MainSort
  \/ MainPrint
  \/ Rerun

Spec == Init /\ [][Next]_vars

---------------------------------------------------------------------------
(* The passes and the sort applied to lists of parsed statements           *)

InitPasses ==
  /\ imports \in UNION {[1..n -> ParsedStmts] : n \in 0..MaxImports}
  /\ prev = <<>>
  /\ pc = "new"
  /\ src = <<>>
  /\ ps = Ps_new
  /\ ret = None
  /\ entry = Ps_new
  /\ out = <<>>
  /\ run = 1

Combine ==
  /\ imports' = combine_relative_imports(imports)
  /\ prev' = imports
  /\ pc' = "combine"
  /\ UNCHANGED <<src, ps, ret, entry, out, run>>

Separate ==
  /\ imports' = separate_absolute_imports(imports)
  /\ prev' = imports
  /\ pc' = "separate"
  /\ UNCHANGED <<src, ps, ret, entry, out, run>>

Sort ==
  /\ imports' = sort(imports)
  /\ prev' = imports
  /\ pc' = "sort"
  /\ UNCHANGED <<src, ps, ret, entry, out, run>>

NextPasses ==
  \/ Combine
  \/ Separate
  \/ Sort

SpecPasses == InitPasses /\ [][NextPasses]_vars

---------------------------------------------------------------------------
(* The grammar rules called one after another on a buffer, from any cursor *)
(* position.  ret is the returned Option; a bool is Some(TRUE) or None and *)
(* a rule without result returns Some(<<>>).                               *)

Literals ==
  { lit_import, lit_from, lit_as, lit_dot, lit_comma, lit_lparen, lit_rparen,
    lit_star }

InitRules ==
  /\ src \in Buffers(RuleChunks, MaxRuleChunks)
  /\ ps \in [i : 0..Len(src), rest : {0}]
  /\ entry = ps
  /\ ret = None
  /\ pc = "new"
  /\ imports = <<>>
  /\ prev = <<>>
  /\ out = <<>>
  /\ run = 1

\* the call of a rule whose result on the current state is r
Call(name, r) ==
  /\ entry' = ps
  /\ ps' = r.s
  /\ ret' = r.val
  /\ pc' = name
  /\ UNCHANGED <<src, imports, prev, out, run>>

CallString ==
  \E str \in Literals :
    LET r == string(src, ps, str)
    IN Call("string", [val |-> IF r.ok THEN Some(TRUE) ELSE None, s |-> r.s])

CallIdentifier == Call("identifier", identifier(src, ps))

CallComment == Call("comment", comment(src, ps))

CallWhitespace == Call("whitespace", [val |-> Some(<<>>), s |-> whitespace(src, ps)])

CallModulePath == Call("module_path", module_path(src, ps))

CallModule == Call("module", module(src, ps))

CallModuleList == Call("module_list", module_list(src, ps))

CallIdentifierList == Call("identifier_list", identifier_list(src, ps))

CallRelativeModule == Call("relative_module", relative_module(src, ps))

CallImport == Call("import", import(src, ps))

CallStart == Call("start", start(src, ps))

NextRules ==
  \/ CallString
  \/ CallIdentifier
  \/ CallComment
  \/ CallWhitespace
  \/ CallModulePath
  \/ CallModule
  \/ CallModuleList
  \/ CallIdentifierList
  \/ CallRelativeModule
  \/ CallImport
  \/ CallStart

SpecRules == InitRules /\ [][NextRules]_vars

---------------------------------------------------------------------------
(* Properties                                                              *)

IsFuture(imp) == imp.kind = "Relative" /\ is_future(imp.from)

\* C1: a Relative entry with a __future__ origin compares Less than every
\* Absolute entry and every Absolute entry compares Greater than it, and
\* after the sort every such entry stands before every Absolute entry.
C1_FutureFirst ==
  \A j, k \in DOMAIN imports :
    IsFuture(imports[j]) /\ imports[k].kind = "Absolute" =>
      /\ Import_cmp(imports[j], imports[k]) = Less
      /\ Import_cmp(imports[k], imports[j]) = Greater
      /\ pc = "sort" => j < k

\* C2: the comparison of Import values is antisymmetric (cmp(a, b) is the
\* reverse of cmp(b, a), so cmp(a, a) is Equal) and transitive.
C2_StrictTotalOrder ==
  \A a, b, c \in range(imports) :
    /\ Import_cmp(a, b) = reverse(Import_cmp(b, a))
    /\ Import_cmp(a, b) = Less /\ Import_cmp(b, c) = Less => Import_cmp(a, c) = Less

\* C3: the pipeline run on its own output writes that output again.
C3_Idempotent ==
  run > 1 /\ pc = "done" => out = src

SameOrigin(list, o) ==
  {k \in DOMAIN list : list[k].kind = "Relative" /\ RelativeModule_eq(list[k].from, o)}

Spellings(tokens) == {tokens[k].slice : k \in DOMAIN tokens}

\* C4: after the merge pass each origin of the input's Relative entries has
\* exactly one Relative entry, the first-occurring one, holding the union of
\* the identifiers of the input's entries with that origin.
C4_MergeCorrect ==
  pc = "combine" =>
    \A j \in DOMAIN prev :
      prev[j].kind = "Relative" =>
        LET members == SameOrigin(prev, prev[j].from)
            merged == SameOrigin(imports, prev[j].from)
        IN /\ Cardinality(merged) = 1
           /\ \A m \in merged :
                /\ imports[m].from = prev[Min(members)].from
                /\ imports[m].comment = prev[Min(members)].comment
                /\ Spellings(imports[m].identifiers)
                     = UNION {Spellings(prev[k].identifiers) : k \in members}

NotRelative(imp) == imp.kind # "Relative"

\* C5: the merge pass keeps every Absolute and Wildcard entry, unchanged and
\* in the same relative order.
C5_MergeKeepsOthers ==
  pc = "combine" => SelectSeq(imports, NotRelative) = SelectSeq(prev, NotRelative)

\* C6: after the split pass every Absolute entry names one module; an input
\* Absolute entry keeps its first module and its comment in place, its other
\* modules are appended at the end of the list as single-module entries
\* without comment, and Relative and Wildcard entries are unchanged.
C6_SplitCorrect ==
  pc = "separate" =>
    LET n == Len(prev)
        others(j) == IF prev[j].kind = "Absolute"
                       THEN {<<j, m>> : m \in 2..Len(prev[j].modules)}
                       ELSE {}
        before(j) == Cardinality(UNION {others(k) : k \in 1..(j - 1)})
    IN /\ \A k \in DOMAIN imports :
            imports[k].kind = "Absolute" => Len(imports[k].modules) = 1
       /\ Len(imports) = n + before(n + 1)
       /\ \A j \in 1..n :
            IF prev[j].kind = "Absolute"
              THEN /\ imports[j] = Absolute(<<prev[j].modules[1]>>, prev[j].comment)
                   /\ \A m \in 2..Len(prev[j].modules) :
                        imports[n + before(j) + (m - 1)]
                          = Absolute(<<prev[j].modules[m]>>, None)
              ELSE imports[j] = prev[j]

C6_Witness ==
  /\ pc = "separate"
  /\ \E j, k, l \in DOMAIN prev :
       /\ j < k
       /\ prev[j].kind = "Absolute" /\ Len(prev[j].modules) = 3 /\ prev[j].comment # None
       /\ prev[k].kind = "Absolute" /\ Len(prev[k].modules) = 3
       /\ prev[l].kind # "Absolute"
  /\ Len(imports) = Len(prev) + 4

is_ws(c) == c = SP \/ c = NL

\* C7 as stated: the block-end offset is immediately after the last parsed
\* statement and before the whitespace that follows it (the byte before the
\* offset is no whitespace); without statements it is 0 and the remainder is
\* the whole buffer.
C7_RestBeforeWhitespace ==
  pc = "required" =>
    IF imports = <<>>
      THEN ps.rest = 0 /\ rest(src, ps) = src
      ELSE ps.rest > 0 /\ ~is_ws(src[ps.rest])

\* C7 amended: the block-end offset is the cursor at which the last parsed
\* statement returned, after the statement's comment and the whitespace that
\* follows it: the remainder begins with no space or newline, and the buffer
\* up to the offset parses to the same statements and is consumed whole;
\* without statements the offset is 0 and the remainder is the whole buffer.
C7_RestAfterWhitespace ==
  pc = "required" =>
    IF imports = <<>>
      THEN ps.rest = 0 /\ rest(src, ps) = src
      ELSE /\ ps.rest > 0
           /\ ps.rest = ps.i
           /\ rest(src, ps) = <<>> \/ ~is_ws(rest(src, ps)[1])
           /\ LET block == start(Slice(src, 0, ps.rest), Ps_new)
              IN block.val = Some(imports) /\ block.s.rest = ps.rest

C7_Witness ==
  /\ pc = "required"
  /\ Len(imports) >= 2
  /\ is_ws(src[ps.rest])
  /\ rest(src, ps) # <<>>

\* C8: module_list and identifier_list succeed when an element and a comma
\* are followed by no further element, with or without a closing paren.
C8_TrailingComma ==
  /\ pc = "module_list" =>
       LET RECURSIVE trailing(_)
           trailing(s) ==
             LET m == module(src, s)
                 c == string(src, whitespace(src, m.s), lit_comma)
                 s1 == whitespace(src, c.s)
             IN /\ m.val # None
                /\ c.ok
                /\ module(src, s1).val = None \/ trailing(s1)
       IN trailing(string(src, entry, lit_lparen).s) => ret # None
  /\ pc = "identifier_list" =>
       LET RECURSIVE trailing(_)
           trailing(s) ==
             LET id == identifier(src, s)
                 c == string(src, whitespace(src, id.s), lit_comma)
                 s1 == whitespace(src, c.s)
             IN /\ id.val # None
                /\ c.ok
                /\ identifier(src, s1).val = None \/ trailing(s1)
       IN trailing(string(src, entry, lit_lparen).s) => ret # None

\* C9: at a `#`, comment returns the bytes from the `#` up to the newline,
\* or to the end of the buffer when there is no newline, and leaves the
\* cursor after the newline or at the end of the buffer.
C9_CommentToken ==
  pc = "comment" /\ entry.i < Len(src) /\ src[entry.i + 1] = HASH =>
    LET eol == Min({j \in entry.i..Len(src) : j = Len(src) \/ src[j + 1] = NL})
    IN /\ ret # None
       /\ ret[1].slice = Slice(src, entry.i, eol)
       /\ ps.i = IF eol < Len(src) THEN eol + 1 ELSE eol

FailingRules ==
  { "string", "identifier", "comment", "module_path", "module", "module_list",
    "identifier_list", "relative_module", "import" }

\* C10: a rule that returns no match leaves the cursor where it was at the
\* rule's entry and leaves the block-end offset unchanged.
C10_Backtrack ==
  pc \in FailingRules /\ ret = None => ps.i = entry.i /\ ps.rest = entry.rest

C10_Witness ==
  /\ pc = "import"
  /\ ret = None
  /\ LET fr == string(src, entry, lit_from)
         from == relative_module(src, whitespace(src, fr.s))
     IN fr.ok /\ from.val # None /\ from.s.i > entry.i + 4
  /\ entry.rest > 0

====
